---- MODULE Spec2Model ----
(***************************************************************************)
(* Model of the spam-classification web service (app.py) and of the        *)
(* SpamClassifier it drives (spam_classifier.py).                          *)
(*                                                                         *)
(* The Flask request handlers run on server threads and every accepted     *)
(* POST /api/train starts one more daemon thread running                   *)
(* train_model_thread.  A training thread is cut into steps at the places  *)
(* where it writes shared state (training_status, the classifier object,   *)
(* sys.stdout, training_lock); the handlers of train, predict and          *)
(* batch-predict are one step each, the reset handler is two steps (its    *)
(* check of is_training, then its two rebinds).                            *)
(*                                                                         *)
(* The statistical library is opaque: a fitted vectorizer or classifier is *)
(* represented by the number of the training run that fitted it.           *)
(***************************************************************************)
EXTENDS Integers, Sequences, FiniteSets, TLC

\* Number of training threads that are ever started (one per accepted train).
MaxRuns == 2
\* Number of accepted resets (each builds one more SpamClassifier object).
MaxResets == 1
\* Longest message list of a batch-predict request.
MaxBatch == 2

Threads == 1..MaxRuns
ObjIds == 0..MaxResets

\* Request inputs: the 'message' field ("" stands for a missing or empty one).
Messages == {"", "free prize", "see you"}

RECURSIVE SeqsUpTo(_)
SeqsUpTo(n) ==
  IF n = 0 THEN {<<>>}
  ELSE LET shorter == SeqsUpTo(n - 1)
       IN shorter \cup {Append(s, m) : s \in {x \in shorter : Len(x) = n - 1}, m \in Messages}

MessageLists == SeqsUpTo(MaxBatch)

VARIABLES
  training_status,  \* the global status dict of app.py
  classifier,       \* the global name 'classifier': the id of the object it is bound to
  objects,          \* the SpamClassifier objects built so far, by id
  training_lock,    \* 0 when free, else the thread that holds it
  sys_stdout,       \* 0 for the process's original stream, else the LogCapture of that thread
  pc,               \* where each training thread is
  self,             \* the SpamClassifier a thread's classifier.train() call is bound to
  original_stdout,  \* each thread's log_capture.original_stdout
  outcome,          \* how each thread's try block ended
  reset_pc,         \* the reset handler: "idle", or "checked" once past its is_training test
  response,         \* the HTTP response sent by the step just taken (NoResponse if none)
  pre_model,        \* history: the fields of self when the thread's train() call began
  pre_trained,      \* history: training_status['is_trained'] when the thread's run began
  succeeded         \* history: a run completed successfully since start or the last accepted reset

vars == <<training_status, classifier, objects, training_lock, sys_stdout, pc, self,
          original_stdout, outcome, reset_pc, response, pre_model, pre_trained, succeeded>>

-----------------------------------------------------------------------------
\* Data

\* A vectorizer / classifier attribute: None, or the estimator built by run `run`.
None == [run |-> 0, fitted |-> FALSE]
Unfitted(t) == [run |-> t, fitted |-> FALSE]
Fitted(t) == [run |-> t, fitted |-> TRUE]

\* SpamClassifier.__init__
NewSpamClassifier ==
  [vectorizer |-> None, nb_classifier |-> None, lr_classifier |-> None, is_trained |-> FALSE]

\* The initial value of training_status, also the value reset() rebinds it to.
InitialStatus ==
  [is_training |-> FALSE, is_trained |-> FALSE, progress |-> 0, current_step |-> "",
   logs |-> <<>>, error |-> "None", metrics |-> {}]

\* log_capture.get_logs(): the captured print lines, kept as one opaque entry.
GetLogs == <<"captured output">>

\* The metrics dict written on success by run t (an accuracy is named by its run).
Metrics(t) == {<<"naive_bayes_accuracy", t>>, <<"logistic_regression_accuracy", t>>}

NoResponse == [op |-> "none", code |-> 0, text |-> "", results |-> <<>>]
Reply(op, code, text) == [op |-> op, code |-> code, text |-> text, results |-> <<>>]

-----------------------------------------------------------------------------
\* SpamClassifier.predict and classify_sms_real_time, as functions of the object read

\* What one prediction is made of: the message and the runs whose vectorizer and
\* classifiers produced its labels and confidences.
Result(message, obj) ==
  [message |-> message, vectorizer |-> obj.vectorizer.run,
   nb_classifier |-> obj.nb_classifier.run, lr_classifier |-> obj.lr_classifier.run]

\* classify_sms_real_time: the exception it raises ("" when it returns a result).
\* vectorizer.transform and the classifiers' predict raise on an estimator that
\* is missing or was never fitted.
ClassifyRaises(obj) ==
  IF obj.vectorizer = None \/ obj.nb_classifier = None \/ obj.lr_classifier = None
    THEN "'NoneType' object has no attribute"
  ELSE IF ~obj.vectorizer.fitted \/ ~obj.nb_classifier.fitted \/ ~obj.lr_classifier.fitted
    THEN "estimator is not fitted yet"
  ELSE ""

\* SpamClassifier.predict: the exception it raises ("" when it returns a result).
PredictRaises(obj) ==
  IF ~obj.is_trained THEN "Model must be trained first" ELSE ClassifyRaises(obj)

NotTrainedText == "Model not trained yet. Please train the model first."

\* PredictResponse without the is_trained test of line 144.
PredictResponse_NoGate(message) ==
  IF message = "" THEN Reply("predict", 400, "No message provided")
  ELSE LET obj == objects[classifier]
       IN IF PredictRaises(obj) # "" THEN Reply("predict", 500, PredictRaises(obj))
          ELSE [op |-> "predict", code |-> 200, text |-> "",
                results |-> <<Result(message, obj)>>]

\* POST /api/predict with body {message: message}
PredictResponse(message) ==
  IF ~training_status.is_trained THEN Reply("predict", 400, NotTrainedText)
  ELSE IF message = "" THEN Reply("predict", 400, "No message provided")
  ELSE LET obj == objects[classifier]
       IN IF PredictRaises(obj) # "" THEN Reply("predict", 500, PredictRaises(obj))
          ELSE [op |-> "predict", code |-> 200, text |-> "",
                results |-> <<Result(message, obj)>>]

\* BatchPredictResponse with each result put in front of the list (results.insert(0, ...)).
BatchPredictResponse_Reversed(messages) ==
  IF ~training_status.is_trained THEN Reply("batch-predict", 400, NotTrainedText)
  ELSE IF messages = <<>> THEN Reply("batch-predict", 400, "No messages provided")
  ELSE LET obj == objects[classifier]
       IN IF PredictRaises(obj) # "" THEN Reply("batch-predict", 500, PredictRaises(obj))
          ELSE [op |-> "batch-predict", code |-> 200, text |-> "",
                results |-> [i \in 1..Len(messages) |->
                               Result(messages[Len(messages) + 1 - i], obj)]]

\* POST /api/batch-predict with body {messages: messages}
BatchPredictResponse(messages) ==
  IF ~training_status.is_trained THEN Reply("batch-predict", 400, NotTrainedText)
  ELSE IF messages = <<>> THEN Reply("batch-predict", 400, "No messages provided")
  ELSE LET obj == objects[classifier]
       IN IF PredictRaises(obj) # "" THEN Reply("batch-predict", 500, PredictRaises(obj))
          ELSE [op |-> "batch-predict", code |-> 200, text |-> "",
                results |-> [i \in 1..Len(messages) |-> Result(messages[i], obj)]]

-----------------------------------------------------------------------------
\* Initial state: app.py lines 20-30, no thread started.

Init ==
  /\ training_status = InitialStatus
  /\ classifier = 0
  /\ objects = [o \in ObjIds |-> NewSpamClassifier]
  /\ training_lock = 0
  /\ sys_stdout = 0
  /\ pc = [t \in Threads |-> "unborn"]
  /\ self = [t \in Threads |-> 0]
  /\ original_stdout = [t \in Threads |-> 0]
  /\ outcome = [t \in Threads |-> "none"]
  /\ reset_pc = "idle"
  /\ response = NoResponse
  /\ pre_model = [t \in Threads |-> NewSpamClassifier]
  /\ pre_trained = [t \in Threads |-> FALSE]
  /\ succeeded = FALSE

threadVars == <<pc, self, original_stdout, outcome, pre_model, pre_trained>>

-----------------------------------------------------------------------------
\* Request handlers

\* The thread a threading.Thread(target=train_model_thread).start() creates.
NextThread == CHOOSE t \in Threads : pc[t] = "unborn" /\ \A u \in Threads : pc[u] = "unborn" => t <= u

\* train(): which of its three returns the request takes.
TrainBranch ==
  IF training_status.is_training THEN "busy"
  ELSE IF training_status.is_trained THEN "retrain"
  ELSE "start"

\* POST /api/train
Train ==
  /\ \/ /\ TrainBranch = "busy"
        /\ response' = Reply("train", 400, "Training already in progress")
        /\ pc' = pc
     \/ /\ TrainBranch = "retrain"
        /\ response' = Reply("train", 200, "Model already trained. Retraining...")
        /\ pc' = pc
     \/ /\ TrainBranch = "start"
        /\ \E t \in Threads : pc[t] = "unborn"
        /\ pc' = [pc EXCEPT ![NextThread] = "start"]
        /\ response' = Reply("train", 200, "Training started")
  /\ UNCHANGED <<training_status, classifier, objects, training_lock, sys_stdout, self,
                 original_stdout, outcome, reset_pc, pre_model, pre_trained, succeeded>>

\* GET /api/status
Status ==
  /\ response' = [op |-> "status", code |-> 200, text |-> "", results |-> <<training_status>>]
  /\ UNCHANGED <<training_status, classifier, objects, training_lock, sys_stdout,
                 threadVars, reset_pc, succeeded>>

\* Predict with the except clause of line 156 also recording the error in the status.
Predict_RecordsError ==
  /\ \E message \in Messages : response' = PredictResponse(message)
  /\ training_status' = IF response'.code = 500
                          THEN [training_status EXCEPT !.error = response'.text]
                          ELSE training_status
  /\ UNCHANGED <<classifier, objects, training_lock, sys_stdout,
                 threadVars, reset_pc, succeeded>>

\* POST /api/predict
Predict ==
  /\ \E message \in Messages : response' = PredictResponse(message)
  /\ UNCHANGED <<training_status, classifier, objects, training_lock, sys_stdout,
                 threadVars, reset_pc, succeeded>>

\* POST /api/batch-predict
BatchPredict ==
  /\ \E messages \in MessageLists : response' = BatchPredictResponse(messages)
  /\ UNCHANGED <<training_status, classifier, objects, training_lock, sys_stdout,
                 threadVars, reset_pc, succeeded>>

\* POST /api/reset, line 187: the test of is_training.
ResetCheck ==
  /\ reset_pc = "idle"
  /\ \/ /\ training_status.is_training
        /\ response' = Reply("reset", 400, "Cannot reset while training is in progress")
        /\ reset_pc' = "idle"
     \/ /\ ~training_status.is_training
        /\ classifier < MaxResets
        /\ response' = NoResponse
        /\ reset_pc' = "checked"
  /\ UNCHANGED <<training_status, classifier, objects, training_lock, sys_stdout,
                 threadVars, succeeded>>

\* ResetApply with 'is_trained': False left out of the new status dict.
ResetApply_KeepsTrained ==
  /\ reset_pc = "checked"
  /\ training_status' = [InitialStatus EXCEPT !.is_trained = training_status.is_trained]
  /\ classifier' = classifier + 1
  /\ objects' = [objects EXCEPT ![classifier + 1] = NewSpamClassifier]
  /\ response' = Reply("reset", 200, "Reset successful")
  /\ reset_pc' = "idle"
  /\ succeeded' = FALSE
  /\ UNCHANGED <<training_lock, sys_stdout, threadVars>>

\* POST /api/reset, lines 190-201: both globals are rebound and 200 is returned.
ResetApply ==
  /\ reset_pc = "checked"
  /\ training_status' = InitialStatus
  /\ classifier' = classifier + 1
  /\ objects' = [objects EXCEPT ![classifier + 1] = NewSpamClassifier]
  /\ response' = Reply("reset", 200, "Reset successful")
  /\ reset_pc' = "idle"
  /\ succeeded' = FALSE
  /\ UNCHANGED <<training_lock, sys_stdout, threadVars>>

-----------------------------------------------------------------------------
\* train_model_thread, one action per step of thread t

\* A write of training_status['current_step'] and training_status['progress'].
Checkpoint(step, progress) ==
  [training_status EXCEPT !.current_step = step, !.progress = progress]

\* Lines 53-54: log_capture = LogCapture(); sys.stdout = log_capture
ThreadStart(t) ==
  /\ pc[t] = "start"
  /\ original_stdout' = [original_stdout EXCEPT ![t] = sys_stdout]
  /\ sys_stdout' = t
  /\ pc' = [pc EXCEPT ![t] = "acquire"]
  /\ response' = NoResponse
  /\ UNCHANGED <<training_status, classifier, objects, training_lock, self, outcome,
                 reset_pc, pre_model, pre_trained, succeeded>>

\* Line 57: with training_lock (blocks while another thread holds it)
Acquire(t) ==
  /\ pc[t] = "acquire"
  /\ training_lock = 0
  /\ training_lock' = t
  /\ pc' = [pc EXCEPT ![t] = "init"]
  /\ response' = NoResponse
  /\ UNCHANGED <<training_status, classifier, objects, sys_stdout, self, original_stdout,
                 outcome, reset_pc, pre_model, pre_trained, succeeded>>

\* Lines 58-62: the status fields written under the lock.
StartedStatus ==
  [training_status EXCEPT !.is_training = TRUE, !.progress = 0,
                          !.current_step = "Starting training...",
                          !.logs = <<>>, !.error = "None"]

\* InitStatus with the rest of the try block indented under 'with training_lock':
\* the lock is still held when the first checkpoint is written.
InitStatus_KeepsLock(t) ==
  /\ pc[t] = "init"
  /\ training_lock = t
  /\ pre_trained' = [pre_trained EXCEPT ![t] = training_status.is_trained]
  /\ training_status' = StartedStatus
  /\ training_lock' = t
  /\ pc' = [pc EXCEPT ![t] = "step1"]
  /\ response' = NoResponse
  /\ UNCHANGED <<classifier, objects, sys_stdout, self, original_stdout, outcome,
                 reset_pc, pre_model, succeeded>>

\* Lines 58-62 and the release of the lock at the end of the with block.
InitStatus(t) ==
  /\ pc[t] = "init"
  /\ training_lock = t
  /\ pre_trained' = [pre_trained EXCEPT ![t] = training_status.is_trained]
  /\ training_status' = StartedStatus
  /\ training_lock' = 0
  /\ pc' = [pc EXCEPT ![t] = "step1"]
  /\ response' = NoResponse
  /\ UNCHANGED <<classifier, objects, sys_stdout, self, original_stdout, outcome,
                 reset_pc, pre_model, succeeded>>

\* Lines 65-66, 70-71, 75-76, 80-81: the four checkpoints before classifier.train().
Step(t) ==
  /\ \/ /\ pc[t] = "step1"
        /\ training_status' = Checkpoint("Loading SMS dataset...", 10)
        /\ pc' = [pc EXCEPT ![t] = "step2"]
     \/ /\ pc[t] = "step2"
        /\ training_status' = Checkpoint("Preprocessing text data...", 30)
        /\ pc' = [pc EXCEPT ![t] = "step3"]
     \/ /\ pc[t] = "step3"
        /\ training_status' = Checkpoint("Extracting features using TF-IDF...", 50)
        /\ pc' = [pc EXCEPT ![t] = "step4"]
     \/ /\ pc[t] = "step4"
        /\ training_status' = Checkpoint("Training Naive Bayes classifier...", 70)
        /\ pc' = [pc EXCEPT ![t] = "call"]
  /\ response' = NoResponse
  /\ UNCHANGED <<classifier, objects, training_lock, sys_stdout, self, original_stdout,
                 outcome, reset_pc, pre_model, pre_trained, succeeded>>

\* An exception leaves the try block: an Exception goes to the except clause,
\* SystemExit (load_sms_data's exit(1)) is no Exception and goes to finally.
Raise(t, kind) ==
  /\ pc' = [pc EXCEPT ![t] = IF kind = "exit" THEN "finally" ELSE "except"]
  /\ outcome' = [outcome EXCEPT ![t] = kind]

\* str(e) of the exception a failing training step raises.
ErrorText == "training step failed"

\* SpamClassifier.train writes one attribute of self.
SetField(t, field, value) ==
  objects' = [objects EXCEPT ![self[t]] = [@ EXCEPT ![field] = value]]

\* Line 84 up to spam_classifier.py line 139: classifier.train() is bound to the
\* object the global names now; load_sms_data() returns the dataset or exits
\* when the file is absent; reading or preprocessing may raise.
TrainLoad(t) ==
  /\ pc[t] = "call"
  /\ self' = [self EXCEPT ![t] = classifier]
  /\ pre_model' = [pre_model EXCEPT ![t] = objects[classifier]]
  /\ \/ /\ pc' = [pc EXCEPT ![t] = "vectorizer"]
        /\ outcome' = outcome
     \/ Raise(t, "exit")
     \/ Raise(t, "exception")
  /\ response' = NoResponse
  /\ UNCHANGED <<training_status, classifier, objects, training_lock, sys_stdout,
                 original_stdout, reset_pc, pre_trained, succeeded>>

\* One estimator of train(): self.<field> = Estimator() and its fit, after which
\* the code up to the next assignment (split, evaluation, prints) may raise too.
TrainFit(t, at, field, next) ==
  /\ pc[t] = at
  /\ \/ /\ SetField(t, field, Fitted(t))
        /\ pc' = [pc EXCEPT ![t] = next]
        /\ outcome' = outcome
     \/ /\ SetField(t, field, Unfitted(t))
        /\ Raise(t, "exception")
     \/ /\ SetField(t, field, Fitted(t))
        /\ Raise(t, "exception")
  /\ response' = NoResponse
  /\ UNCHANGED <<training_status, classifier, training_lock, sys_stdout, self,
                 original_stdout, reset_pc, pre_model, pre_trained, succeeded>>

\* spam_classifier.py lines 141-151: the TF-IDF vectorizer and the split.
TrainVectorizer(t) == TrainFit(t, "vectorizer", "vectorizer", "nb")

\* spam_classifier.py lines 153-160: the Naive Bayes classifier.
TrainNb(t) == TrainFit(t, "nb", "nb_classifier", "lr")

\* spam_classifier.py lines 162-177: the Logistic Regression and the evaluation.
TrainLr(t) == TrainFit(t, "lr", "lr_classifier", "trained")

\* spam_classifier.py lines 179-182: self.is_trained = True; return the accuracies.
TrainReturn(t) ==
  /\ pc[t] = "trained"
  /\ SetField(t, "is_trained", TRUE)
  /\ pc' = [pc EXCEPT ![t] = "step5"]
  /\ response' = NoResponse
  /\ UNCHANGED <<training_status, classifier, training_lock, sys_stdout, self,
                 original_stdout, outcome, reset_pc, pre_model, pre_trained, succeeded>>

\* Lines 87-88: the checkpoint after classifier.train() has returned.
Step5(t) ==
  /\ pc[t] = "step5"
  /\ training_status' = Checkpoint("Training Logistic Regression...", 90)
  /\ pc' = [pc EXCEPT ![t] = "complete"]
  /\ response' = NoResponse
  /\ UNCHANGED <<classifier, objects, training_lock, sys_stdout, self, original_stdout,
                 outcome, reset_pc, pre_model, pre_trained, succeeded>>

\* Line 92: training_status['is_trained'] = True
SetTrained(t) ==
  /\ pc[t] = "complete"
  /\ training_status' = [training_status EXCEPT !.is_trained = TRUE]
  /\ succeeded' = TRUE
  /\ pc' = [pc EXCEPT ![t] = "publish"]
  /\ response' = NoResponse
  /\ UNCHANGED <<classifier, objects, training_lock, sys_stdout, self, original_stdout,
                 outcome, reset_pc, pre_model, pre_trained>>

\* Lines 93-99: the rest of the status of a run that succeeded.
CompletedStatus(t) ==
  [training_status EXCEPT !.progress = 100,
                          !.current_step = "Training completed successfully!",
                          !.metrics = Metrics(t), !.logs = GetLogs]

\* Lines 93-99
Complete(t) ==
  /\ pc[t] = "publish"
  /\ training_status' = CompletedStatus(t)
  /\ outcome' = [outcome EXCEPT ![t] = "success"]
  /\ pc' = [pc EXCEPT ![t] = "finally"]
  /\ response' = NoResponse
  /\ UNCHANGED <<classifier, objects, training_lock, sys_stdout, self, original_stdout,
                 reset_pc, pre_model, pre_trained, succeeded>>

\* Lines 102-105: the status an except clause leaves.
FailedStatus ==
  [training_status EXCEPT !.error = ErrorText,
                          !.current_step = "Error: training step failed",
                          !.logs = Append(GetLogs, "ERROR: traceback")]

\* Lines 101-105: except Exception as e
Except(t) ==
  /\ pc[t] = "except"
  /\ training_status' = FailedStatus
  /\ pc' = [pc EXCEPT ![t] = "finally"]
  /\ response' = NoResponse
  /\ UNCHANGED <<classifier, objects, training_lock, sys_stdout, self, original_stdout,
                 outcome, reset_pc, pre_model, pre_trained, succeeded>>

\* Finally without line 109 (is_training is never cleared).
Finally_KeepsTraining(t) ==
  /\ pc[t] = "finally"
  /\ sys_stdout' = original_stdout[t]
  /\ pc' = [pc EXCEPT ![t] = "done"]
  /\ response' = NoResponse
  /\ UNCHANGED <<training_status, classifier, objects, training_lock, self, original_stdout,
                 outcome, reset_pc, pre_model, pre_trained, succeeded>>

\* Lines 107-109: finally: sys.stdout = log_capture.original_stdout; is_training = False
Finally(t) ==
  /\ pc[t] = "finally"
  /\ sys_stdout' = original_stdout[t]
  /\ training_status' = [training_status EXCEPT !.is_training = FALSE]
  /\ pc' = [pc EXCEPT ![t] = "done"]
  /\ response' = NoResponse
  /\ UNCHANGED <<classifier, objects, training_lock, self, original_stdout, outcome,
                 reset_pc, pre_model, pre_trained, succeeded>>

ThreadStep(t) ==
  \/ ThreadStart(t)
  \/ Acquire(t)
  \/ InitStatus(t)
  \/ Step(t)
  \/ TrainLoad(t)
  \/ TrainVectorizer(t)
  \/ TrainNb(t)
  \/ TrainLr(t)
  \/ TrainReturn(t)
  \/ Step5(t)
  \/ SetTrained(t)
  \/ Complete(t)
  \/ Except(t)
  \/ Finally(t)

Next ==
  \/ Train
  \/ Status
  \/ Predict
  \/ BatchPredict
  \/ ResetCheck
  \/ ResetApply
  \/ \E t \in Threads : ThreadStep(t)

Spec == Init /\ [][Next]_vars

\* The interpreter schedules every started thread: a thread step that stays
\* enabled is eventually taken.
Fairness == \A t \in Threads : WF_vars(ThreadStep(t))

\* The steps that write state a training run reads or writes: the status,
\* predict and batch-predict requests only produce a response and are left out.
RunNext ==
  \/ Train
  \/ ResetCheck
  \/ ResetApply
  \/ \E t \in Threads : ThreadStep(t)

FairSpec == Init /\ [][RunNext]_vars /\ Fairness

-----------------------------------------------------------------------------
\* Vocabulary of the properties

PredictOps == {"predict", "batch-predict"}

\* Thread t has been started and has not finished its finally block.
Alive(t) == pc[t] \notin {"unborn", "done"}

\* Thread t is past its locked initialisation and before the end of its finally block.
Running(t) ==
  pc[t] \in {"step1", "step2", "step3", "step4", "call", "vectorizer", "nb", "lr",
             "trained", "step5", "complete", "publish", "except", "finally"}

\* The step just taken is thread t leaving its finally block: the end of its run.
RunEnds(t) == pc[t] = "finally" /\ pc'[t] = "done"

ResetAccepted == response.op = "reset" /\ response.code = 200

-----------------------------------------------------------------------------
\* C1: while a training run is in progress no second one is: in every reachable
\* state at most one thread is between its locked initialisation and the end of
\* its finally block.
C1_OneRunAtATime == \A t, u \in Threads : Running(t) /\ Running(u) => t = u

\* C2: a train request made in state Completed (is_trained, not is_training) is
\* answered 200 and starts a training thread.
C2_RetrainProceeds ==
  [][(response'.op = "train" /\ training_status.is_trained /\ ~training_status.is_training)
       => /\ response'.code = 200
          /\ \E t \in Threads : pc[t] = "unborn" /\ pc'[t] = "start"]_vars

\* C3: every prediction returned was computed with a vectorizer, a Naive Bayes
\* classifier and a Logistic Regression that come from the same training run.
C3_PredictReadsOneRun ==
  response.op \in PredictOps =>
    \A i \in 1..Len(response.results) :
      /\ response.results[i].vectorizer = response.results[i].nb_classifier
      /\ response.results[i].nb_classifier = response.results[i].lr_classifier

\* C4: when a thread's classifier.train() has raised, the object it trained has
\* the vectorizer, the two classifiers and the is_trained flag it had when the
\* call began.
C4_FailedRunKeepsModel ==
  \A t \in Threads :
    (pc[t] = "except" /\ outcome[t] = "exception") => objects[self[t]] = pre_model[t]

\* C5: as long as no training run has completed successfully since the process
\* started or since the last accepted reset, every predict and batch-predict
\* request is answered 400 with the not-trained error, whatever its messages.
C5_NotTrainedBeforeSuccess ==
  (response.op \in PredictOps /\ ~succeeded) =>
    /\ response.code = 400
    /\ response.text = NotTrainedText
    /\ response.results = <<>>

\* C5 witness: a predict request answered 400 after a training run has failed.
C5_Witness ==
  /\ response.op = "predict"
  /\ response.code = 400
  /\ ~succeeded
  /\ \E t \in Threads : pc[t] = "done" /\ outcome[t] = "exception"

\* C6: no reset is accepted while a training thread is alive (from the train
\* request that started it to the end of its finally block), and a rejected
\* reset changes neither training_status nor the classifier.
C6_NoResetDuringRun ==
  [][/\ (response'.op = "reset" /\ response'.code = 200) => \A t \in Threads : ~Alive(t)
     /\ (response'.op = "reset" /\ response'.code = 400)
          => UNCHANGED <<training_status, classifier, objects>>]_vars

\* C7: an accepted reset leaves training_status at its initial values and the
\* global classifier bound to a new untrained SpamClassifier; and while
\* is_trained is false every predict request is answered 400 not-trained, and
\* only a training thread's line 92 makes is_trained true.
C7_ResetClears ==
  [][/\ (response'.op = "reset" /\ response'.code = 200)
          => /\ training_status' = InitialStatus
             /\ classifier' # classifier
             /\ objects'[classifier'] = NewSpamClassifier
     /\ (response'.op \in PredictOps /\ ~training_status.is_trained)
          => response'.code = 400 /\ response'.text = NotTrainedText
     /\ (~training_status.is_trained /\ training_status'.is_trained)
          => \E t \in Threads : pc[t] = "complete" /\ pc'[t] = "publish"]_vars

\* C7 witness: a reset accepted in state Completed has discarded a trained model.
C7_Witness ==
  /\ ResetAccepted
  /\ objects[0].is_trained
  /\ classifier = 1
  /\ \A t \in Threads : ~Alive(t)

\* C8: a run that ends without success ends with error set, the trace in the
\* logs and is_training false.
C8_FailureRecorded ==
  [][\A t \in Threads :
       (RunEnds(t) /\ outcome[t] # "success")
         => /\ training_status'.error # "None"
            /\ \E i \in 1..Len(training_status'.logs) :
                 training_status'.logs[i] = "ERROR: traceback"
            /\ ~training_status'.is_training]_vars

\* C9: when a run that failed ends, is_trained has the value it had when the
\* run began.
C9_FailedRunKeepsTrainedFlag ==
  [][\A t \in Threads :
       (RunEnds(t) /\ outcome[t] # "success")
         => training_status'.is_trained = pre_trained[t]]_vars

\* C10: when a run that succeeded ends, the status is Completed: is_trained,
\* not is_training, no error, and the two accuracies of that run as metrics.
C10_SuccessCompletes ==
  [][\A t \in Threads :
       (RunEnds(t) /\ outcome[t] = "success")
         => /\ training_status'.is_trained
            /\ ~training_status'.is_training
            /\ training_status'.error = "None"
            /\ training_status'.metrics = Metrics(t)]_vars

\* The model installed is a trained one: the status says so and the global
\* classifier is a trained object whose three estimators are fitted.
ModelTrained ==
  /\ training_status.is_trained
  /\ PredictRaises(objects[classifier]) = ""

\* C11: on a trained model a batch-predict of a non-empty list is answered 200
\* with one result per message, in the order of the messages (result i carries
\* message i); an empty or missing list is answered 400 with no results.
C11_BatchKeepsOrder ==
  \A messages \in MessageLists :
    LET r == BatchPredictResponse(messages)
    IN /\ (messages # <<>> /\ ModelTrained)
            => /\ r.code = 200
               /\ Len(r.results) = Len(messages)
               /\ \A i \in 1..Len(messages) : r.results[i].message = messages[i]
       /\ messages = <<>> => r.code = 400 /\ r.results = <<>>
       /\ (messages = <<>> /\ training_status.is_trained) => r.text = "No messages provided"

\* C11 witness: a batch of two different messages has been answered 200.
C11_Witness ==
  /\ response.op = "batch-predict"
  /\ response.code = 200
  /\ Len(response.results) = 2
  /\ response.results[1].message # response.results[2].message

\* Thread t is between its line 92 (is_trained = True) and the end of its finally block.
Finishing(t) == pc[t] = "publish" \/ (pc[t] = "finally" /\ outcome[t] = "success")

BothFlags == training_status.is_training /\ training_status.is_trained

\* C12 as stated: while a first training run (one that began with is_trained
\* false) is in progress, is_training and is_trained are not both true.
C12_NeverBothInFirstRun ==
  (\E t \in Threads : Running(t) /\ ~pre_trained[t]) => ~BothFlags

\* C12 as amended: is_training and is_trained are both true only while a
\* repeat-training run (one that began with is_trained true) is in progress or
\* while some run is between its line 92 and the end of its finally block.
C12_BothOnlyTransiently ==
  BothFlags => \E t \in Threads : Finishing(t) \/ (Running(t) /\ pre_trained[t])

\* C12 witness: the only run, a first run, has set is_trained and not yet cleared is_training.
C12_Witness ==
  /\ BothFlags
  /\ pc[1] = "finally" /\ outcome[1] = "success" /\ ~pre_trained[1]
  /\ \A t \in Threads : t # 1 => pc[t] = "unborn"

\* The progress value a thread writes in the step it takes from each position.
ProgressWritten ==
  [p \in {"init", "step1", "step2", "step3", "step4", "step5", "publish"} |->
     CASE p = "init" -> 0
       [] p = "step1" -> 10
       [] p = "step2" -> 30
       [] p = "step3" -> 50
       [] p = "step4" -> 70
       [] p = "step5" -> 90
       [] p = "publish" -> 100]

\* C13: a run starts by setting progress to 0 and, from then to the end of the
\* run, no step of any thread or handler lowers progress.
C13_ProgressMonotone ==
  [][\A t \in Threads :
       /\ (pc[t] = "init" /\ pc'[t] = "step1") => training_status'.progress = 0
       /\ (Running(t) /\ Running(t)')
            => training_status'.progress >= training_status.progress]_vars

\* C14: a thread writes the checkpoints 0, 10, 30, 50, 70, 90, 100 in that
\* order; whenever progress is 100 is_trained is true; and a run that ends
\* without success does not end with progress 100.
C14_HundredOnlyOnSuccess ==
  [][/\ training_status'.progress = 100 => training_status'.is_trained
     /\ \A t \in Threads :
          /\ (pc'[t] # pc[t] /\ pc[t] \in DOMAIN ProgressWritten)
               => training_status'.progress = ProgressWritten[pc[t]]
          /\ (RunEnds(t) /\ outcome[t] # "success") => training_status'.progress # 100]_vars

\* C15: training_lock is held exactly while a thread is in the with block of
\* lines 57-62 (never at a checkpoint or inside classifier.train()), and a
\* status request can be answered in every reachable state.
C15_LockOnlyForInit ==
  /\ \A t \in Threads : training_lock = t <=> pc[t] = "init"
  /\ training_lock \in Threads \cup {0}
  /\ ENABLED Status

\* C15 witness: a status request answered while a thread is inside classifier.train().
C15_Witness ==
  /\ response.op = "status"
  /\ response.results[1].is_training
  /\ training_lock = 0
  /\ \E t \in Threads : pc[t] = "nb"

\* C16: every started training thread reaches the end of its finally block,
\* and the step that ends a run leaves is_training false.
C16_RunTerminates ==
  /\ \A t \in Threads : (pc[t] = "start") ~> (pc[t] = "done")
  /\ [][\A t \in Threads : RunEnds(t) => ~training_status'.is_training]_vars

\* C16 witness: a run that ended through the dataset loader's exit, is_training false.
C16_Witness ==
  /\ \E t \in Threads : pc[t] = "done" /\ outcome[t] = "exit"
  /\ \E t \in Threads : pc[t] = "done" /\ outcome[t] = "success"
  /\ ~training_status.is_training

\* C17: a predict or batch-predict request, whatever it is answered (a result,
\* 400 or 500), changes neither training_status nor the classifier objects nor
\* the object the global classifier names.
C17_PredictReadsOnly ==
  [][response'.op \in PredictOps
       => UNCHANGED <<training_status, classifier, objects, training_lock, sys_stdout>>]_vars

\* C17 witness: a predict request has been answered 500.
C17_Witness ==
  /\ response.op = "predict"
  /\ response.code = 500

\* C18: whenever training_status['is_trained'] is true the global classifier is
\* a trained object with a fitted vectorizer and two fitted classifiers, so
\* SpamClassifier.predict does not raise.
C18_TrainedFlagAgrees ==
  training_status.is_trained => PredictRaises(objects[classifier]) = ""

\* C19: while a thread is past its locked initialisation and before the end of
\* its finally block, training_status['is_training'] is true.
C19_TrainingFlagReflectsRun ==
  \A t \in Threads : Running(t) => training_status.is_training

\* C20: when no training thread is alive, sys.stdout is the original stream.
C20_StdoutRestored ==
  (\A t \in Threads : ~Alive(t)) => sys_stdout = 0

====
